---- MODULE Spec2Model ----
(***************************************************************************)
(* A model of CasOC::Transcription (CasOCTranscription.h): the variable    *)
(* store, the bound matrices written by setVariableBounds, the             *)
(* flatten/expand codec and the steps of solve().                          *)
(*                                                                         *)
(* Numbers: a double is modelled by an integer, +-infinity by +-Infinity.  *)
(* A normalized grid point g in [0, 1] is the integer g * GridDenom, and a *)
(* time vector (createTimes' result) is kept in units of 1 / GridDenom, so *)
(* that (tf - t0) * grid + t0 is exact.  Binary rounding is not modelled.  *)
(* A casadi matrix is a record [rows, columns, data] with data a function  *)
(* of <<row, column>> (both counted from 0, as in the code); a column      *)
(* vector handed to the solver is a sequence.                              *)
(***************************************************************************)
EXTENDS Integers, Sequences, FiniteSets, TLC

\* ------------------------------------------------------------- bounds
MaxGridPoints == 3
MaxStates == 2
MaxControls == 1
GridDenom == 3
MaxBoundCalls == 2
MaxSolves == 2
MaxMeshIntervals == 4
MeshDenom == 7

\* std::numeric_limits<double>::infinity()
Infinity == 99

\* ------------------------------------------------- variable-kind keys
\* enum Var: the keys of Variables<T>, compared by std::sort with <.
initial_time == 0
final_time == 1
states == 2
controls == 3
Var == {initial_time, final_time, states, controls}

\* ---------------------------------------------------- casadi matrices
\* casadi::DM(rows, columns): a matrix of zeros.
DM(nrows, ncols) ==
    [rows |-> nrows, columns |-> ncols,
     data |-> [p \in (0 .. nrows - 1) \X (0 .. ncols - 1) |-> 0]]

\* A 1 x 1 matrix holding v.
Scalar(v) ==
    [rows |-> 1, columns |-> 1, data |-> [p \in {<<0, 0>>} |-> v]]

numel(m) == m.rows * m.columns

\* casadi vec(): the entries of m column by column (column-major).
vec(m) ==
    [k \in 1 .. numel(m) |-> m.data[<<(k - 1) % m.rows, (k - 1) \div m.rows>>]]

\* T::veccat(stdvec): vec() of each matrix, concatenated in vector order.
RECURSIVE veccat(_)
veccat(stdvec) ==
    IF stdvec = <<>> THEN <<>>
    ELSE vec(Head(stdvec)) \o veccat(Tail(stdvec))

\* A plausible slip: filling the output row by row.
reshapeRowMajor(v, nrows, ncols) ==
    [rows |-> nrows, columns |-> ncols,
     data |-> [p \in (0 .. nrows - 1) \X (0 .. ncols - 1) |->
                  v[p[1] * ncols + p[2] + 1]]]

\* casadi::DM::reshape(v, rows, columns): column-major refill of a vector.
reshape(v, nrows, ncols) ==
    [rows |-> nrows, columns |-> ncols,
     data |-> [p \in (0 .. nrows - 1) \X (0 .. ncols - 1) |->
                  v[p[2] * nrows + p[1] + 1]]]

\* x(Slice(start, stop)) on a column vector: entries start .. stop - 1.
SliceOf(x, start, stop) == SubSeq(x, start + 1, stop)

\* ------------------------------------------------ index selections
\* The row/column arguments of setVariableBounds: casadi::Slice() (all),
\* casadi::Slice(start, stop), or one int, where a negative int counts
\* from the end.
SliceAll == [kind |-> "all", start |-> 0, stop |-> 0]
Slice(a, b) == [kind |-> "slice", start |-> a, stop |-> b]
Index(i) == [kind |-> "index", start |-> i, stop |-> i + 1]

Indices(sel, len) ==
    CASE sel.kind = "all" -> 0 .. len - 1
      [] sel.kind = "slice" ->
            {i \in 0 .. len - 1 :
                /\ i >= (IF sel.start < 0 THEN sel.start + len ELSE sel.start)
                /\ i < (IF sel.stop < 0 THEN sel.stop + len ELSE sel.stop)}
      [] sel.kind = "index" ->
            {IF sel.start < 0 THEN sel.start + len ELSE sel.start}

\* m(rowIndices, columnIndices) = v: assign v to every selected entry.
AssignEntries(m, rowIndices, columnIndices, v) ==
    LET selected == Indices(rowIndices, m.rows)
                        \X Indices(columnIndices, m.columns)
    IN [m EXCEPT !.data =
           [p \in DOMAIN m.data |-> IF p \in selected THEN v ELSE m.data[p]]]

\* ----------------------------------------------------------- Bounds
\* CasOC::Bounds: isSet() is false for a default-constructed value.
Unset == [set |-> FALSE, lower |-> 0, upper |-> 0]
SetBounds(lo, up) == [set |-> TRUE, lower |-> lo, upper |-> up]
isSet(bounds) == bounds.set

\* ------------------------------------------------------------ codec
\* The orders in which `for (const auto& kv : vars)` may visit an
\* unordered_map with key set S: any order at all.
IterationOrders(S) ==
    {o \in [1 .. Cardinality(S) -> S] :
        \A i, j \in 1 .. Cardinality(S) : i # j => o[i] # o[j]}

\* std::sort with operator<: insertion of each key into a sorted prefix.
RECURSIVE insertSorted(_, _)
insertSorted(k, sorted) ==
    IF sorted = <<>> THEN <<k>>
    ELSE IF k < Head(sorted) THEN <<k>> \o sorted
         ELSE <<Head(sorted)>> \o insertSorted(k, Tail(sorted))

RECURSIVE sort(_)
sort(keys) ==
    IF keys = <<>> THEN <<>> ELSE insertSorted(Head(keys), sort(Tail(keys)))

\* A plausible slip: the keys in the order the container yields them.
getKeysUnsorted(iter) == iter

\* getSortedVarKeys(vars): iter is the order the loop over vars visits
\* the keys; the keys are pushed back in that order and then sorted.
getSortedVarKeys(iter) == sort(iter)

\* The iteration orders of a map holding a block of every kind.
VarOrders == IterationOrders(Var)

\* flatten(vars): the blocks in sorted key order, through veccat.
flatten(vars, iter) ==
    LET keys == getSortedVarKeys(iter)
    IN veccat([k \in 1 .. Len(keys) |-> vars[keys[k]]])

\* A plausible slip: the offset is not advanced after a block.
RECURSIVE expandLoopNoAdvance(_, _, _, _, _)
expandLoopNoAdvance(x, vars, keys, offset, out) ==
    IF keys = <<>> THEN out
    ELSE LET key == Head(keys)
             value == vars[key]
         IN expandLoopNoAdvance(x, vars, Tail(keys), offset,
                (key :> reshape(SliceOf(x, offset, offset + numel(value)),
                                value.rows, value.columns)) @@ out)

\* The loop of expand(): one block per sorted key, cut at offset.
RECURSIVE expandLoop(_, _, _, _, _)
expandLoop(x, vars, keys, offset, out) ==
    IF keys = <<>> THEN out
    ELSE LET key == Head(keys)
             value == vars[key]
         IN expandLoop(x, vars, Tail(keys), offset + numel(value),
                (key :> reshape(SliceOf(x, offset, offset + numel(value)),
                                value.rows, value.columns)) @@ out)

\* expand(x): vars is m_vars (only its shapes are read), iter the order the
\* loop of getSortedVarKeys(m_vars) visits its keys.
expand(x, vars, iter) ==
    expandLoop(x, vars, getSortedVarKeys(iter), 0, <<>>)

\* A plausible slip: the grid is scaled by the final time, not by the
\* duration.
createTimesScaledByFinalTime(initialTime, finalTime, grid) ==
    [i \in 1 .. Len(grid) |-> finalTime * grid[i] + initialTime * GridDenom]

\* createTimes(initialTime, finalTime): (finalTime - initialTime) * m_grid
\* + initialTime, in units of 1 / GridDenom.
createTimes(initialTime, finalTime, grid) ==
    [i \in 1 .. Len(grid) |->
        (finalTime - initialTime) * grid[i] + initialTime * GridDenom]

\* ------------------------------------------------ setVariableBounds
\* A plausible slip: the upper matrix is given the lower value.
setVariableBoundsUpperFromLower(lowerM, upperM, rowIndices, columnIndices, bounds) ==
    IF isSet(bounds)
    THEN <<AssignEntries(lowerM, rowIndices, columnIndices, bounds.lower),
           AssignEntries(upperM, rowIndices, columnIndices, bounds.lower)>>
    ELSE <<AssignEntries(lowerM, rowIndices, columnIndices, -Infinity),
           AssignEntries(upperM, rowIndices, columnIndices, Infinity)>>

\* A plausible slip: bounds that are not set leave the entries alone.
setVariableBoundsSkipUnset(lowerM, upperM, rowIndices, columnIndices, bounds) ==
    IF isSet(bounds)
    THEN <<AssignEntries(lowerM, rowIndices, columnIndices, bounds.lower),
           AssignEntries(upperM, rowIndices, columnIndices, bounds.upper)>>
    ELSE <<lowerM, upperM>>

\* A plausible slip: the selected entries are narrowed by the new value
\* added to the old one (+= for =).
setVariableBoundsAccumulate(lowerM, upperM, rowIndices, columnIndices, bounds) ==
    LET add(m, v) ==
            LET selected == Indices(rowIndices, m.rows)
                                \X Indices(columnIndices, m.columns)
            IN [m EXCEPT !.data =
                   [p \in DOMAIN m.data |->
                       IF p \in selected THEN m.data[p] + v ELSE m.data[p]]]
    IN IF isSet(bounds)
       THEN <<add(lowerM, bounds.lower), add(upperM, bounds.upper)>>
       ELSE <<add(lowerM, -Infinity), add(upperM, Infinity)>>

\* A plausible slip: the column selection is dropped and whole rows are
\* written.
setVariableBoundsWholeRows(lowerM, upperM, rowIndices, columnIndices, bounds) ==
    IF isSet(bounds)
    THEN <<AssignEntries(lowerM, rowIndices, SliceAll, bounds.lower),
           AssignEntries(upperM, rowIndices, SliceAll, bounds.upper)>>
    ELSE <<AssignEntries(lowerM, rowIndices, SliceAll, -Infinity),
           AssignEntries(upperM, rowIndices, SliceAll, Infinity)>>

\* A plausible slip: bounds given the wrong way round are put in order.
setVariableBoundsOrdered(lowerM, upperM, rowIndices, columnIndices, bounds) ==
    IF isSet(bounds)
    THEN <<AssignEntries(lowerM, rowIndices, columnIndices,
                         IF bounds.lower <= bounds.upper
                         THEN bounds.lower ELSE bounds.upper),
           AssignEntries(upperM, rowIndices, columnIndices,
                         IF bounds.lower <= bounds.upper
                         THEN bounds.upper ELSE bounds.lower)>>
    ELSE <<AssignEntries(lowerM, rowIndices, columnIndices, -Infinity),
           AssignEntries(upperM, rowIndices, columnIndices, Infinity)>>

\* The new <<lower, upper>> matrices of block var after
\* setVariableBounds(var, rowIndices, columnIndices, bounds).
setVariableBounds(lowerM, upperM, rowIndices, columnIndices, bounds) ==
    IF isSet(bounds)
    THEN <<AssignEntries(lowerM, rowIndices, columnIndices, bounds.lower),
           AssignEntries(upperM, rowIndices, columnIndices, bounds.upper)>>
    ELSE <<AssignEntries(lowerM, rowIndices, columnIndices, -Infinity),
           AssignEntries(upperM, rowIndices, columnIndices, Infinity)>>

\* ---------------------------------------------------------- state
VARIABLES
    pc,                        \* where the instance is in its life
    m_solver,                  \* const Solver&: the solver configuration
    m_problem,                 \* const Problem&: shapes and bound infos
    m_numGridPoints,
    m_vars,                    \* Var -> shape of the symbolic block
    m_lowerBounds,             \* Var -> matrix
    m_upperBounds,             \* Var -> matrix
    m_grid,                    \* sequence of grid points (times GridDenom)
    xdot,                      \* grid indices calcDAE was called for
    m_objective,
    m_constraints,
    m_constraintsLowerBounds,
    m_constraintsUpperBounds,
    guessOrig,                 \* solve's argument
    guess,                     \* solve's local: the resampled guess
    nlpFunc,                   \* solve's local: what nlpsol() was given
    nlpArgs,                   \* solve's local: the DMDict given to nlpFunc
    nlpResult,                 \* solve's local: what nlpFunc returned
    solution,                  \* what solve returned, None before it returns
    solverCalls,               \* calls of nlpFunc made by the current solve
    callLog,                   \* the setVariableBounds calls made from
                               \* outside transcribe(), in order
    built,                     \* the members as construction left them
    solveLog,                  \* the guesses of the solve calls that ended
    peer,                      \* a second instance, while the other runs
    quadrature,                \* a scheme's mesh, grid and coefficients
    resampled                  \* an Iterate, resampled there and back

instanceVars ==
    <<m_solver, m_problem, m_numGridPoints, m_vars, m_lowerBounds,
      m_upperBounds, m_grid, xdot, m_objective, m_constraints,
      m_constraintsLowerBounds, m_constraintsUpperBounds>>
constraintVars ==
    <<m_objective, m_constraints, m_constraintsLowerBounds,
      m_constraintsUpperBounds>>
solveVars ==
    <<guessOrig, guess, nlpFunc, nlpArgs, nlpResult, solution, solverCalls>>
callVars == <<callLog>>
\* What the studies of call sequences, of two instances and of the pure
\* functions keep; no step of one instance touches them by itself.
auxVars == <<built, solveLog, peer, quadrature, resampled>>
vars == <<pc, instanceVars, solveVars, callVars, auxVars>>

None == [kind |-> "none"]

\* ------------------------------------------------ problem and solver
\* A variable info of the problem: the bounds over the whole phase and
\* the bounds at the first and at the last grid point.
Info(b, bi, bf) == [bounds |-> b, initialBounds |-> bi, finalBounds |-> bf]

ProblemInfos ==
    {Info(SetBounds(-1, 1), SetBounds(1, 0), Unset),
     Info(SetBounds(-1, 1), SetBounds(0, 0), SetBounds(1, 1)),
     Info(Unset, Unset, SetBounds(0, 1))}

\* A problem of zero duration: the final time is bound to the initial
\* time.
ZeroDurationProblem ==
    [numStates |-> 1, numControls |-> MaxControls,
     timeInitialBounds |-> SetBounds(0, 0),
     timeFinalBounds |-> SetBounds(0, 0),
     info |-> Info(SetBounds(-1, 1), SetBounds(0, 0), SetBounds(1, 1))]

Problems ==
    [numStates : 1 .. MaxStates,
     numControls : 0 .. MaxControls,
     timeInitialBounds : {SetBounds(0, 0)},
     timeFinalBounds : {SetBounds(0, 1)},
     info : ProblemInfos]
    \cup {ZeroDurationProblem}

\* casadi::Dict: a function from option names to values.
EmptyDict == <<>>
PluginOptionSets == {EmptyDict, [print_time |-> "false"]}
SolverOptionSets ==
    {[tol |-> "1e-3", constr_viol_tol |-> "1e-3",
      hessian_approximation |-> "limited-memory"]}

Solvers ==
    [optimSolver : {"ipopt"},
     pluginOptions : PluginOptionSets,
     solverOptions : SolverOptionSets]

\* Strictly increasing grids of n points from 0 to 1 (GridDenom).
Grids(n) ==
    {g \in [1 .. n -> 0 .. GridDenom] :
        /\ g[1] = 0
        /\ g[n] = GridDenom
        /\ \A i \in 1 .. n - 1 : g[i] < g[i + 1]}

\* The shapes of the blocks: the time endpoints are scalars, states and
\* controls have one row per channel and one column per grid point.
Shapes(problem, n) ==
    [v \in Var |->
        CASE v = initial_time -> [rows |-> 1, columns |-> 1]
          [] v = final_time -> [rows |-> 1, columns |-> 1]
          [] v = states -> [rows |-> problem.numStates, columns |-> n]
          [] v = controls -> [rows |-> problem.numControls, columns |-> n]]

\* Transcription(solver, problem, numGridPoints): the members the
\* constructor sets; every container starts empty.
Init ==
    /\ pc = "constructed"
    /\ m_solver \in Solvers
    /\ m_problem \in Problems
    /\ m_numGridPoints \in 2 .. MaxGridPoints
    /\ m_vars = <<>>
    /\ m_lowerBounds = <<>>
    /\ m_upperBounds = <<>>
    /\ m_grid = <<>>
    /\ xdot = <<>>
    /\ m_objective = None
    /\ m_constraints = <<>>
    /\ m_constraintsLowerBounds = <<>>
    /\ m_constraintsUpperBounds = <<>>
    /\ guessOrig = None
    /\ guess = None
    /\ nlpFunc = None
    /\ nlpArgs = None
    /\ nlpResult = None
    /\ solution = None
    /\ solverCalls = 0
    /\ callLog = <<>>

\* Nothing is kept aside.
InitAux ==
    /\ built = None
    /\ solveLog = <<>>
    /\ peer = None
    /\ quadrature = None
    /\ resampled = None

\* ------------------------------------------------------- transcribe
\* MX::sym(name, rows, columns): a block of distinct symbols.
Sym(v, shape) ==
    [rows |-> shape.rows, columns |-> shape.columns,
     data |-> [p \in (0 .. shape.rows - 1) \X (0 .. shape.columns - 1) |->
                  <<v, p[1], p[2]>>]]

\* The three setVariableBounds calls made for one row of a block: the
\* phase bounds on the interior columns, then the initial bounds on the
\* first column, then the final bounds on the last one.
applyInfoToRow(lowerM, upperM, row, info, n) ==
    LET a == setVariableBounds(lowerM, upperM, Index(row), Slice(1, n - 1),
                               info.bounds)
        b == setVariableBounds(a[1], a[2], Index(row), Index(0),
                               info.initialBounds)
    IN setVariableBounds(b[1], b[2], Index(row), Index(-1), info.finalBounds)

RECURSIVE applyInfoToRows(_, _, _, _, _)
applyInfoToRows(lowerM, upperM, nrows, info, n) ==
    IF nrows = 0 THEN <<lowerM, upperM>>
    ELSE LET done == applyInfoToRows(lowerM, upperM, nrows - 1, info, n)
         IN applyInfoToRow(done[1], done[2], nrows - 1, info, n)

\* The <<lower, upper>> bound maps transcribe() leaves for a problem:
\* matrices of the blocks' shapes, then the bounds of every info.
transcribeBounds(problem, n) ==
    LET shapes == Shapes(problem, n)
        zero == [v \in Var |-> DM(shapes[v].rows, shapes[v].columns)]
        pair(v) ==
            CASE v = initial_time ->
                    setVariableBounds(zero[v], zero[v], SliceAll, SliceAll,
                                      problem.timeInitialBounds)
              [] v = final_time ->
                    setVariableBounds(zero[v], zero[v], SliceAll, SliceAll,
                                      problem.timeFinalBounds)
              [] OTHER ->
                    applyInfoToRows(zero[v], zero[v], shapes[v].rows,
                                    problem.info, n)
    IN <<[v \in Var |-> pair(v)[1]], [v \in Var |-> pair(v)[2]]>>

\* addConstraints(lower, upper, equations): one entry appended to each of
\* the three lists, as <<equations, lower bounds, upper bounds>>.
addConstraints(cons, lower, upper, equations) ==
    <<Append(cons[1], equations), Append(cons[2], lower),
      Append(cons[3], upper)>>

\* A vector of size symbolic residuals, and a vector of size copies of v.
Residuals(tag, size) == [k \in 1 .. size |-> <<tag, k>>]
Fill(size, v) == [k \in 1 .. size |-> v]

AddConstraintsStep(from, to, tag, size, lo, up) ==
    /\ pc = from
    /\ pc' = to
    /\ LET new == addConstraints(
                      <<m_constraints, m_constraintsLowerBounds,
                        m_constraintsUpperBounds>>,
                      Fill(size, lo), Fill(size, up), Residuals(tag, size))
       IN /\ m_constraints' = new[1]
          /\ m_constraintsLowerBounds' = new[2]
          /\ m_constraintsUpperBounds' = new[3]
    /\ UNCHANGED <<m_solver, m_problem, m_numGridPoints, m_vars,
                   m_lowerBounds, m_upperBounds, m_grid, xdot, m_objective,
                   solveVars, callVars>>

\* (1) the grid of the scheme.
TranscribeGrid ==
    /\ pc = "constructed"
    /\ pc' = "grid"
    /\ m_grid' \in Grids(m_numGridPoints)
    /\ UNCHANGED <<m_solver, m_problem, m_numGridPoints, m_vars,
                   m_lowerBounds, m_upperBounds, xdot, constraintVars,
                   solveVars, callVars>>

\* (2) every variable block, with its bounds.
TranscribeVariables ==
    /\ pc = "grid"
    /\ pc' = "dae"
    /\ m_vars' = [v \in Var |->
                     Sym(v, Shapes(m_problem, m_numGridPoints)[v])]
    /\ LET b == transcribeBounds(m_problem, m_numGridPoints)
       IN /\ m_lowerBounds' = b[1]
          /\ m_upperBounds' = b[2]
    /\ UNCHANGED <<m_solver, m_problem, m_numGridPoints, m_grid, xdot,
                   constraintVars, solveVars, callVars>>

\* (3) calcDAE(itime, ...) for the next grid point.
TranscribeCalcDAE ==
    /\ pc = "dae"
    /\ Len(xdot) < m_numGridPoints
    /\ xdot' = Append(xdot, Len(xdot))
    /\ UNCHANGED <<pc, m_solver, m_problem, m_numGridPoints, m_vars,
                   m_lowerBounds, m_upperBounds, m_grid, constraintVars,
                   solveVars, callVars>>

\* (4) applyConstraints(): the defects, one per state and mesh interval.
TranscribeDefects ==
    /\ Len(xdot) = m_numGridPoints
    /\ AddConstraintsStep("dae", "path", "defect",
                          m_problem.numStates * (m_numGridPoints - 1), 0, 0)

\* (5) the path constraints, one per grid point.
TranscribePath ==
    AddConstraintsStep("path", "boundary", "path", m_numGridPoints, -1, 1)

\* (6) the boundary constraints.
TranscribeBoundary ==
    AddConstraintsStep("boundary", "objective", "boundary", 1, 0, Infinity)

\* A plausible slip: the objective is set where the boundary constraints
\* were to be emitted, and construction ends there.
TranscribeObjectiveBeforeBoundary ==
    /\ pc = "boundary"
    /\ pc' = "ready"
    /\ m_objective' = [kind |-> "MX", expr |-> "objective"]
    /\ UNCHANGED <<m_solver, m_problem, m_numGridPoints, m_vars,
                   m_lowerBounds, m_upperBounds, m_grid, xdot, m_constraints,
                   m_constraintsLowerBounds, m_constraintsUpperBounds,
                   solveVars, callVars>>

\* (7) setObjective(objective).
TranscribeObjective ==
    /\ pc = "objective"
    /\ pc' = "ready"
    /\ m_objective' = [kind |-> "MX", expr |-> "objective"]
    /\ UNCHANGED <<m_solver, m_problem, m_numGridPoints, m_vars,
                   m_lowerBounds, m_upperBounds, m_grid, xdot, m_constraints,
                   m_constraintsLowerBounds, m_constraintsUpperBounds,
                   solveVars, callVars>>

\* ----------------------------------------------------------- solve
scalarOf(m) == m.data[<<0, 0>>]

\* A plausible slip: a time that is a sample time is given the sample
\* after it.
interpolateOffByOne(ts, ys, t) ==
    IF \E j \in 1 .. Len(ts) : ts[j] = t
    THEN LET j == CHOOSE i \in 1 .. Len(ts) : ts[i] = t
         IN ys[IF j < Len(ts) THEN j + 1 ELSE j]
    ELSE LET j == CHOOSE i \in 1 .. Len(ts) - 1 : ts[i] < t /\ t < ts[i + 1]
         IN ys[j] + ((ys[j + 1] - ys[j]) * (t - ts[j])) \div (ts[j + 1] - ts[j])

\* Linear interpolation of the samples (ts[j], ys[j]) at time t.
interpolate(ts, ys, t) ==
    IF \E j \in 1 .. Len(ts) : ts[j] = t
    THEN ys[CHOOSE j \in 1 .. Len(ts) :
                ts[j] = t /\ \A i \in 1 .. j - 1 : ts[i] # t]
    ELSE LET j == CHOOSE i \in 1 .. Len(ts) - 1 : ts[i] < t /\ t < ts[i + 1]
         IN ys[j] + ((ys[j + 1] - ys[j]) * (t - ts[j])) \div (ts[j + 1] - ts[j])

\* Iterate::resample(newTimes): the trajectory blocks interpolated from the
\* iterate's own times onto newTimes, the other blocks copied.
resample(it, newTimes) ==
    [times |-> newTimes,
     variables |->
        [v \in DOMAIN it.variables |->
            IF v \in {states, controls}
            THEN LET m == it.variables[v]
                 IN [rows |-> m.rows, columns |-> Len(newTimes),
                     data |->
                        [p \in (0 .. m.rows - 1) \X (0 .. Len(newTimes) - 1) |->
                            interpolate(it.times,
                                [c \in 1 .. m.columns |-> m.data[<<p[1], c - 1>>]],
                                newTimes[p[2] + 1])]]
            ELSE it.variables[v]]]

\* The guesses solve is called with: one on the instance's grid, one on
\* the two-point grid over another time range, one of zero duration, and
\* two lacking a time entry.

FullGuess(problem, grid, t0, tf) ==
    [times |-> createTimes(t0, tf, grid),
     variables |->
        [v \in Var |->
            CASE v = initial_time -> Scalar(t0)
              [] v = final_time -> Scalar(tf)
              [] v = states ->
                    [rows |-> problem.numStates, columns |-> Len(grid),
                     data |-> [p \in (0 .. problem.numStates - 1)
                                      \X (0 .. Len(grid) - 1) |->
                                  GridDenom * (p[1] + 2 * p[2])]]
              [] v = controls ->
                    [rows |-> problem.numControls, columns |-> Len(grid),
                     data |-> [p \in (0 .. problem.numControls - 1)
                                      \X (0 .. Len(grid) - 1) |->
                                  GridDenom * (5 - p[2])]]]]

Without(it, key) ==
    [it EXCEPT !.variables =
        [v \in DOMAIN it.variables \ {key} |-> it.variables[v]]]

Guesses(problem, grid) ==
    LET one == FullGuess(problem, grid, 0, 1)
    IN {one, FullGuess(problem, <<0, GridDenom>>, 1, 3),
        FullGuess(problem, grid, 1, 1),
        Without(one, initial_time), Without(one, final_time)}

\* The vectors the solver may return for n decision variables, and the
\* return statuses it may report.
SolverOutputs(n) == {[i \in 1 .. n |-> a * i + 1] : a \in {-1, 0, 1}}
SolverStatuses ==
    {"Solve_Succeeded", "Maximum_Iterations_Exceeded",
     "Infeasible_Problem_Detected"}
Stats(status) ==
    [return_status |-> status, success |-> (status = "Solve_Succeeded")]

\* A plausible slip: each vector is put in front of the ones before it.
RECURSIVE veccatVectorsReversed(_)
veccatVectorsReversed(list) ==
    IF list = <<>> THEN <<>>
    ELSE veccatVectorsReversed(Tail(list)) \o Head(list)

\* casadi::MX::veccat / DM::veccat of a list of column vectors.
RECURSIVE veccatVectors(_)
veccatVectors(list) ==
    IF list = <<>> THEN <<>> ELSE Head(list) \o veccatVectors(Tail(list))

\* Lines 63-66: the plugin options, with the solver's own options added
\* under the solver's name when the plugin options are not empty.
solveOptions(solver) ==
    LET options == solver.pluginOptions
    IN IF DOMAIN options # {}
       THEN (solver.optimSolver :> solver.solverOptions) @@ options
       ELSE options

\* A plausible slip: a guess that lacks a time entry is not resampled and
\* the call goes on with it.
SolveResampleWithSkipping(g) ==
    /\ pc \in {"ready", "returned", "threw"}
    /\ guessOrig' = g
    /\ guess' = IF {initial_time, final_time} \subseteq DOMAIN g.variables
                THEN resample(g,
                        createTimes(scalarOf(g.variables[initial_time]),
                                    scalarOf(g.variables[final_time]),
                                    m_grid))
                ELSE g
    /\ pc' = "nlp"
    /\ nlpFunc' = None
    /\ nlpArgs' = None
    /\ nlpResult' = None
    /\ solution' = None
    /\ solverCalls' = 0
    /\ UNCHANGED <<instanceVars, callVars>>

\* Lines 58-60, for the argument g: the guess resampled onto times made
\* from its own initial_time and final_time; at() throws when the guess
\* lacks one.
SolveResampleWith(g) ==
    /\ pc \in {"ready", "returned", "threw"}
    /\ guessOrig' = g
    /\ IF {initial_time, final_time} \subseteq DOMAIN g.variables
       THEN /\ guess' = resample(g,
                            createTimes(scalarOf(g.variables[initial_time]),
                                        scalarOf(g.variables[final_time]),
                                        m_grid))
            /\ pc' = "nlp"
       ELSE /\ guess' = None
            /\ pc' = "threw"
    /\ nlpFunc' = None
    /\ nlpArgs' = None
    /\ nlpResult' = None
    /\ solution' = None
    /\ solverCalls' = 0
    /\ UNCHANGED <<instanceVars, callVars>>

\* A plausible slip: the resampled guess is a buffer that outlives the
\* call, and it is filled only when it is empty.
SolveResampleKeepsGuess ==
    /\ pc \in {"ready", "returned", "threw"}
    /\ \E g \in Guesses(m_problem, m_grid) :
        /\ guessOrig' = g
        /\ IF {initial_time, final_time} \subseteq DOMAIN g.variables
           THEN /\ guess' = IF guess # None THEN guess
                             ELSE resample(g,
                                    createTimes(scalarOf(g.variables[initial_time]),
                                                scalarOf(g.variables[final_time]),
                                                m_grid))
                /\ pc' = "nlp"
           ELSE /\ guess' = None
                /\ pc' = "threw"
    /\ nlpFunc' = None
    /\ nlpArgs' = None
    /\ nlpResult' = None
    /\ solution' = None
    /\ solverCalls' = 0
    /\ UNCHANGED <<instanceVars, callVars>>

\* solve(guessOrig), called with one of the guesses.
SolveResample ==
    \E g \in Guesses(m_problem, m_grid) : SolveResampleWith(g)

\* Lines 63-72: the options, the nlp dictionary and casadi::nlpsol().
SolveCreateNlp ==
    /\ pc = "nlp"
    /\ \E iter \in VarOrders :
          nlpFunc' = [name |-> "nlp",
                      solver |-> m_solver.optimSolver,
                      options |-> solveOptions(m_solver),
                      x |-> flatten(m_vars, iter),
                      f |-> m_objective,
                      g |-> veccatVectors(m_constraints)]
    /\ pc' = "invoke"
    /\ UNCHANGED <<instanceVars, callVars, guessOrig, guess, nlpArgs,
                   nlpResult, solution, solverCalls>>

\* casadi::nlpsol() raises: the backend cannot be created.
SolveCreateNlpFails ==
    /\ pc = "nlp"
    /\ pc' = "threw"
    /\ UNCHANGED <<instanceVars, callVars, solveVars>>

\* A plausible slip: the resampled guess is kept in a buffer shared by
\* all instances, so the guess flattened is the one resampled last.
solverArgumentsSharedGuess(g, lower, upper, consLower, consUpper, iter) ==
    [x0 |-> flatten((IF peer # None /\ peer.guess # None
                     THEN peer.guess ELSE g).variables, iter),
     lbx |-> flatten(lower, iter),
     ubx |-> flatten(upper, iter),
     lbg |-> veccatVectors(consLower),
     ubg |-> veccatVectors(consUpper)]

\* The DMDict of lines 77-81.  The three maps hold the same keys; iter
\* stands for the order each of the three loops visits them in.
solverArguments(g, lower, upper, consLower, consUpper, iter) ==
    [x0 |-> flatten(g.variables, iter),
     lbx |-> flatten(lower, iter),
     ubx |-> flatten(upper, iter),
     lbg |-> veccatVectors(consLower),
     ubg |-> veccatVectors(consUpper)]

\* A plausible slip: a result that did not converge is tried again.
SolveInvokeRetrying ==
    /\ pc = "invoke"
    /\ \E iter \in VarOrders :
          nlpArgs' = solverArguments(guess, m_lowerBounds, m_upperBounds,
                                     m_constraintsLowerBounds,
                                     m_constraintsUpperBounds, iter)
    /\ solverCalls' = solverCalls + 1
    /\ \E x \in SolverOutputs(Len(nlpFunc.x)), status \in SolverStatuses :
          /\ nlpResult' = [x |-> x, stats |-> Stats(status)]
          /\ pc' = IF status = "Solve_Succeeded" \/ solverCalls >= 2
                   THEN "expand" ELSE "invoke"
    /\ UNCHANGED <<instanceVars, callVars, guessOrig, guess, nlpFunc,
                   solution>>

\* Lines 76-81: nlpFunc is called and returns, converged or not.
SolveInvoke ==
    /\ pc = "invoke"
    /\ \E iter \in VarOrders :
          nlpArgs' = solverArguments(guess, m_lowerBounds, m_upperBounds,
                                     m_constraintsLowerBounds,
                                     m_constraintsUpperBounds, iter)
    /\ solverCalls' = solverCalls + 1
    /\ \E x \in SolverOutputs(Len(nlpFunc.x)), status \in SolverStatuses :
          nlpResult' = [x |-> x, stats |-> Stats(status)]
    /\ pc' = "expand"
    /\ UNCHANGED <<instanceVars, callVars, guessOrig, guess, nlpFunc,
                   solution>>

\* A plausible slip: the error is caught and a Solution holding the guess
\* is handed back.
SolveInvokeFailsPartial ==
    /\ pc = "invoke"
    /\ solverCalls' = solverCalls + 1
    /\ pc' = "threw"
    /\ solution' = [variables |-> guess.variables, times |-> guess.times,
                    stats |-> Stats("Error")]
    /\ UNCHANGED <<instanceVars, callVars, guessOrig, guess, nlpFunc,
                   nlpArgs, nlpResult>>

\* Lines 76-81: the call of nlpFunc raises; nothing after it runs.
SolveInvokeFails ==
    /\ pc = "invoke"
    /\ solverCalls' = solverCalls + 1
    /\ pc' = "threw"
    /\ UNCHANGED <<instanceVars, callVars, guessOrig, guess, nlpFunc,
                   nlpArgs, nlpResult, solution>>

\* A plausible slip: a result that did not converge is not handed back.
makeSolutionIfConverged(result, store, grid, iter) ==
    IF result.stats.success
    THEN LET variables == expand(result.x, store, iter)
         IN [variables |-> variables,
             times |-> createTimes(scalarOf(variables[initial_time]),
                                   scalarOf(variables[final_time]), grid),
             stats |-> result.stats]
    ELSE None

\* A plausible slip: the two time arguments are exchanged.
makeSolutionTimesSwapped(result, store, grid, iter) ==
    LET variables == expand(result.x, store, iter)
    IN [variables |-> variables,
        times |-> createTimes(scalarOf(variables[final_time]),
                              scalarOf(variables[initial_time]), grid),
        stats |-> result.stats]

\* Lines 82-88: the Solution built from the solver's result.
makeSolution(result, store, grid, iter) ==
    LET variables == expand(result.x, store, iter)
    IN [variables |-> variables,
        times |-> createTimes(scalarOf(variables[initial_time]),
                              scalarOf(variables[final_time]), grid),
        stats |-> result.stats]

SolveReturn ==
    /\ pc = "expand"
    /\ \E iter \in VarOrders :
          solution' = makeSolution(nlpResult, m_vars, m_grid, iter)
    /\ pc' = "returned"
    /\ UNCHANGED <<instanceVars, callVars, guessOrig, guess, nlpFunc,
                   nlpArgs, nlpResult, solverCalls>>

Next ==
    \/ TranscribeGrid /\ UNCHANGED auxVars
    \/ TranscribeVariables /\ UNCHANGED auxVars
    \/ TranscribeCalcDAE /\ UNCHANGED auxVars
    \/ TranscribeDefects /\ UNCHANGED auxVars
    \/ TranscribePath /\ UNCHANGED auxVars
    \/ TranscribeBoundary /\ UNCHANGED auxVars
    \/ TranscribeObjective /\ UNCHANGED auxVars
    \/ SolveResample /\ UNCHANGED auxVars
    \/ SolveCreateNlp /\ UNCHANGED auxVars
    \/ SolveCreateNlpFails /\ UNCHANGED auxVars
    \/ SolveInvoke /\ UNCHANGED auxVars
    \/ SolveInvokeFails /\ UNCHANGED auxVars
    \/ SolveReturn /\ UNCHANGED auxVars

\* One instance by itself.
InitAlone == Init /\ InitAux

Spec == InitAlone /\ [][Next]_vars

\* ------------------------------------------- solve, call after call
\* The members of the instance, by name.
Members ==
    [vars |-> m_vars, lowerBounds |-> m_lowerBounds,
     upperBounds |-> m_upperBounds, numGridPoints |-> m_numGridPoints,
     grid |-> m_grid, objective |-> m_objective,
     constraints |-> m_constraints,
     constraintsLowerBounds |-> m_constraintsLowerBounds,
     constraintsUpperBounds |-> m_constraintsUpperBounds]

\* One instance, constructed and then solved up to MaxSolves times; the
\* members are noted when transcribe() ends and each call's guess when
\* the call begins.
InitSolves ==
    /\ Init
    /\ InitAux
    /\ m_solver.pluginOptions # EmptyDict
    /\ m_problem.info = Info(SetBounds(-1, 1), SetBounds(0, 0), SetBounds(1, 1))
    /\ m_problem.numStates = MaxStates
    /\ m_problem.numControls = MaxControls

NextSolves ==
    \/ TranscribeGrid /\ UNCHANGED auxVars
    \/ TranscribeVariables /\ UNCHANGED auxVars
    \/ TranscribeCalcDAE /\ UNCHANGED auxVars
    \/ TranscribeDefects /\ UNCHANGED auxVars
    \/ TranscribePath /\ UNCHANGED auxVars
    \/ TranscribeBoundary /\ UNCHANGED auxVars
    \/ /\ TranscribeObjective
       /\ built' = Members'
       /\ UNCHANGED <<solveLog, peer, quadrature, resampled>>
    \/ /\ Len(solveLog) < MaxSolves
       /\ SolveResample
       /\ solveLog' = Append(solveLog, guessOrig')
       /\ UNCHANGED <<built, peer, quadrature, resampled>>
    \/ SolveCreateNlp /\ UNCHANGED auxVars
    \/ SolveCreateNlpFails /\ UNCHANGED auxVars
    \/ SolveInvoke /\ UNCHANGED auxVars
    \/ SolveInvokeFails /\ UNCHANGED auxVars
    \/ SolveReturn /\ UNCHANGED auxVars

SpecSolves == InitSolves /\ [][NextSolves]_vars

\* ------------------------------------- solve, with a guess of any shape
\* solve() takes any Iterate.  A guess made for a problem with the
\* numbers of states and of controls exchanged holds every key and as
\* many entries as the store, in blocks of other shapes.
IllShapedGuesses(problem, grid) ==
    {FullGuess([problem EXCEPT !.numStates = problem.numControls,
                               !.numControls = problem.numStates],
               grid, 0, 1)}

SolveResampleAnyShape ==
    \E g \in Guesses(m_problem, m_grid)
                \cup IllShapedGuesses(m_problem, m_grid) :
        SolveResampleWith(g)

\* One instance of a problem with more states than controls.
InitAnyShape ==
    /\ Init
    /\ InitAux
    /\ m_problem.numStates = MaxStates
    /\ m_problem.numControls = MaxControls

NextAnyShape ==
    \/ TranscribeGrid /\ UNCHANGED auxVars
    \/ TranscribeVariables /\ UNCHANGED auxVars
    \/ TranscribeCalcDAE /\ UNCHANGED auxVars
    \/ TranscribeDefects /\ UNCHANGED auxVars
    \/ TranscribePath /\ UNCHANGED auxVars
    \/ TranscribeBoundary /\ UNCHANGED auxVars
    \/ TranscribeObjective /\ UNCHANGED auxVars
    \/ SolveResampleAnyShape /\ UNCHANGED auxVars
    \/ SolveCreateNlp /\ UNCHANGED auxVars
    \/ SolveCreateNlpFails /\ UNCHANGED auxVars
    \/ SolveInvoke /\ UNCHANGED auxVars
    \/ SolveInvokeFails /\ UNCHANGED auxVars
    \/ SolveReturn /\ UNCHANGED auxVars

SpecAnyShape == InitAnyShape /\ [][NextAnyShape]_vars

\* ------------------------------------------------- two instances
\* Everything one instance owns and everything its solve call holds.
Current ==
    [pc |-> pc,
     m_solver |-> m_solver,
     m_problem |-> m_problem,
     m_numGridPoints |-> m_numGridPoints,
     m_vars |-> m_vars,
     m_lowerBounds |-> m_lowerBounds,
     m_upperBounds |-> m_upperBounds,
     m_grid |-> m_grid,
     xdot |-> xdot,
     m_objective |-> m_objective,
     m_constraints |-> m_constraints,
     m_constraintsLowerBounds |-> m_constraintsLowerBounds,
     m_constraintsUpperBounds |-> m_constraintsUpperBounds,
     guessOrig |-> guessOrig,
     guess |-> guess,
     nlpFunc |-> nlpFunc,
     nlpArgs |-> nlpArgs,
     nlpResult |-> nlpResult,
     solution |-> solution,
     solverCalls |-> solverCalls]

\* A newly constructed instance: the constructor's arguments, and every
\* container empty.
NewInstance(solver, problem, numGridPoints) ==
    [pc |-> "constructed", m_solver |-> solver, m_problem |-> problem,
     m_numGridPoints |-> numGridPoints, m_vars |-> <<>>,
     m_lowerBounds |-> <<>>, m_upperBounds |-> <<>>, m_grid |-> <<>>,
     xdot |-> <<>>, m_objective |-> None, m_constraints |-> <<>>,
     m_constraintsLowerBounds |-> <<>>, m_constraintsUpperBounds |-> <<>>,
     guessOrig |-> None, guess |-> None, nlpFunc |-> None, nlpArgs |-> None,
     nlpResult |-> None, solution |-> None, solverCalls |-> 0]

\* Two instances over the same Solver, each on its own thread: the
\* smallest problem on two grid points and the largest on the most.  One
\* instance is laid out in the variables, the other waits in peer.
InitConcurrent ==
    /\ Init
    /\ m_solver.pluginOptions # EmptyDict
    /\ m_problem.info = Info(Unset, Unset, SetBounds(0, 1))
    /\ m_problem.numStates = 1
    /\ m_problem.numControls = 0
    /\ m_numGridPoints = 2
    /\ built = None
    /\ solveLog = <<>>
    /\ quadrature = None
    /\ resampled = None
    /\ peer = NewInstance(m_solver,
                          [m_problem EXCEPT !.numStates = MaxStates,
                                            !.numControls = MaxControls],
                          MaxGridPoints)

\* The scheduler runs the other thread: the instances change places.
SwitchInstance ==
    /\ pc' = peer.pc
    /\ m_solver' = peer.m_solver
    /\ m_problem' = peer.m_problem
    /\ m_numGridPoints' = peer.m_numGridPoints
    /\ m_vars' = peer.m_vars
    /\ m_lowerBounds' = peer.m_lowerBounds
    /\ m_upperBounds' = peer.m_upperBounds
    /\ m_grid' = peer.m_grid
    /\ xdot' = peer.xdot
    /\ m_objective' = peer.m_objective
    /\ m_constraints' = peer.m_constraints
    /\ m_constraintsLowerBounds' = peer.m_constraintsLowerBounds
    /\ m_constraintsUpperBounds' = peer.m_constraintsUpperBounds
    /\ guessOrig' = peer.guessOrig
    /\ guess' = peer.guess
    /\ nlpFunc' = peer.nlpFunc
    /\ nlpArgs' = peer.nlpArgs
    /\ nlpResult' = peer.nlpResult
    /\ solution' = peer.solution
    /\ solverCalls' = peer.solverCalls
    /\ peer' = Current
    /\ UNCHANGED <<callVars, built, solveLog, quadrature, resampled>>

\* A step of the running thread, which constructs its instance and calls
\* solve once, or a switch to the other thread.
NextConcurrent ==
    \/ TranscribeGrid /\ UNCHANGED auxVars
    \/ TranscribeVariables /\ UNCHANGED auxVars
    \/ TranscribeCalcDAE /\ UNCHANGED auxVars
    \/ TranscribeDefects /\ UNCHANGED auxVars
    \/ TranscribePath /\ UNCHANGED auxVars
    \/ TranscribeBoundary /\ UNCHANGED auxVars
    \/ TranscribeObjective /\ UNCHANGED auxVars
    \/ pc = "ready" /\ SolveResample /\ UNCHANGED auxVars
    \/ SolveCreateNlp /\ UNCHANGED auxVars
    \/ SolveCreateNlpFails /\ UNCHANGED auxVars
    \/ SolveInvoke /\ UNCHANGED auxVars
    \/ SolveInvokeFails /\ UNCHANGED auxVars
    \/ SolveReturn /\ UNCHANGED auxVars
    \/ SwitchInstance

SpecConcurrent == InitConcurrent /\ [][NextConcurrent]_vars

\* ------------------------------------------------------ resample
\* The sample values of a trajectory and the time ranges of an Iterate.
SampleValues == {0, 1, 5}
TimeRanges == {<<0, 1>>, <<1, 3>>}

\* An Iterate of one state channel over a grid, from t0 to tf, with the
\* given row of values (times GridDenom, so that interpolated values
\* stay apart).
IterateOn(grid, t0, tf, row) ==
    [times |-> createTimes(t0, tf, grid),
     variables |->
        [v \in Var |->
            CASE v = initial_time -> Scalar(t0)
              [] v = final_time -> Scalar(tf)
              [] v = states ->
                    [rows |-> 1, columns |-> Len(grid),
                     data |-> [p \in {0} \X (0 .. Len(grid) - 1) |->
                                  GridDenom * row[p[2] + 1]]]
              [] v = controls -> DM(0, Len(grid))]]

\* An Iterate on a grid A, and the times of a grid B over the Iterate's
\* own time range, as solve makes them (lines 58-60).
InitResample ==
    /\ Init
    /\ m_solver.pluginOptions = EmptyDict
    /\ m_problem.info = Info(Unset, Unset, SetBounds(0, 1))
    /\ m_problem.numStates = 1
    /\ m_problem.numControls = 0
    /\ m_numGridPoints = 2
    /\ built = None
    /\ solveLog = <<>>
    /\ peer = None
    /\ quadrature = None
    /\ \E na, nb \in 2 .. MaxGridPoints, range \in TimeRanges :
       \E gridA \in Grids(na), gridB \in Grids(nb),
          row \in [1 .. na -> SampleValues] :
          resampled =
              [orig |-> IterateOn(gridA, range[1], range[2], row),
               onto |-> createTimes(range[1], range[2], gridB),
               there |-> None, back |-> None]

\* The Iterate is resampled onto the times of grid B.
ResampleThere ==
    /\ resampled.there = None
    /\ resampled' = [resampled EXCEPT
                        !.there = resample(resampled.orig, resampled.onto)]
    /\ UNCHANGED <<pc, instanceVars, solveVars, callVars, built, solveLog,
                   peer, quadrature>>

\* The result is resampled back onto the Iterate's own times.
ResampleBack ==
    /\ resampled.there # None
    /\ resampled.back = None
    /\ resampled' = [resampled EXCEPT
                        !.back = resample(resampled.there,
                                          resampled.orig.times)]
    /\ UNCHANGED <<pc, instanceVars, solveVars, callVars, built, solveLog,
                   peer, quadrature>>

NextResample ==
    \/ ResampleThere
    \/ ResampleBack

SpecResample == InitResample /\ [][NextResample]_vars

\* --------------------------------------------- grid and quadrature
\* The scheme variants, and the meshes of 1 .. MaxMeshIntervals intervals:
\* strictly increasing points from 0 to 1, a point p standing for
\* p / MeshDenom.
Schemes == {"trapezoidal", "hermite-simpson"}
Meshes ==
    UNION {{m \in [1 .. k + 1 -> 0 .. MeshDenom] :
                /\ m[1] = 0
                /\ m[k + 1] = MeshDenom
                /\ \A i \in 1 .. k : m[i] < m[i + 1]} :
           k \in 1 .. MaxMeshIntervals}

\* The grid of a scheme over a mesh, a point g standing for
\* g / (2 * MeshDenom): the mesh points, and for Hermite-Simpson the
\* midpoint of every mesh interval as well.
createGrid(scheme, mesh) ==
    IF scheme = "trapezoidal"
    THEN [i \in 1 .. Len(mesh) |-> 2 * mesh[i]]
    ELSE [i \in 1 .. 2 * Len(mesh) - 1 |->
             IF i % 2 = 1 THEN 2 * mesh[(i + 1) \div 2]
             ELSE mesh[i \div 2] + mesh[i \div 2 + 1]]

\* A plausible slip: the second half of every interval overwrites the
\* coefficient instead of adding to it (= for +=).
trapezoidalCoefficientsOverwritten(grid) ==
    [i \in 1 .. Len(grid) |->
        IF i > 1 THEN 3 * (grid[i] - grid[i - 1])
        ELSE 3 * (grid[i + 1] - grid[i])]

\* The trapezoidal rule: half of every mesh interval to each of its two
\* ends.  A coefficient c stands for c / (12 * MeshDenom).
trapezoidalCoefficients(grid) ==
    [i \in 1 .. Len(grid) |->
        (IF i > 1 THEN 3 * (grid[i] - grid[i - 1]) ELSE 0)
        + (IF i < Len(grid) THEN 3 * (grid[i + 1] - grid[i]) ELSE 0)]

\* Simpson's rule: of every mesh interval a sixth to each end and four
\* sixths to the midpoint.
hermiteSimpsonCoefficients(grid) ==
    [i \in 1 .. Len(grid) |->
        IF i % 2 = 0 THEN 4 * (grid[i + 1] - grid[i - 1])
        ELSE (IF i > 1 THEN grid[i] - grid[i - 2] ELSE 0)
             + (IF i < Len(grid) THEN grid[i + 2] - grid[i] ELSE 0)]

\* createQuadratureCoefficientsImpl() of the scheme, from its grid.
createQuadratureCoefficientsImpl(scheme, grid) ==
    IF scheme = "trapezoidal" THEN trapezoidalCoefficients(grid)
    ELSE hermiteSimpsonCoefficients(grid)

\* createQuadratureCoefficients(): what the scheme's override returns.
createQuadratureCoefficients(scheme, grid) ==
    createQuadratureCoefficientsImpl(scheme, grid)

InitQuadrature ==
    /\ Init
    /\ m_solver.pluginOptions = EmptyDict
    /\ m_problem.info = Info(Unset, Unset, SetBounds(0, 1))
    /\ m_problem.numStates = 1
    /\ m_problem.numControls = 0
    /\ m_numGridPoints = 2
    /\ built = None
    /\ solveLog = <<>>
    /\ peer = None
    /\ resampled = None
    /\ \E scheme \in Schemes, mesh \in Meshes :
          quadrature = [scheme |-> scheme, mesh |-> mesh, grid |-> <<>>,
                        coefficients |-> <<>>]

\* The scheme lays out its grid.
CreateGrid ==
    /\ quadrature.grid = <<>>
    /\ quadrature' = [quadrature EXCEPT
                         !.grid = createGrid(quadrature.scheme, quadrature.mesh)]
    /\ UNCHANGED <<pc, instanceVars, solveVars, callVars, built, solveLog,
                   peer, resampled>>

\* createQuadratureCoefficients() is called.
CreateQuadratureCoefficients ==
    /\ quadrature.grid # <<>>
    /\ quadrature.coefficients = <<>>
    /\ quadrature' = [quadrature EXCEPT
                         !.coefficients =
                             createQuadratureCoefficients(quadrature.scheme,
                                                          quadrature.grid)]
    /\ UNCHANGED <<pc, instanceVars, solveVars, callVars, built, solveLog,
                   peer, resampled>>

NextQuadrature ==
    \/ CreateGrid
    \/ CreateQuadratureCoefficients

SpecQuadrature == InitQuadrature /\ [][NextQuadrature]_vars

\* ------------------------------------- setVariableBounds, call by call
\* The row and column selections a derived class may pass for a block of
\* the given size: everything, one row; everything, the interior columns,
\* the first column, the last column.  A scalar block is selected whole.
RowSelections(nrows) ==
    IF nrows = 1 THEN {SliceAll}
    ELSE {SliceAll} \cup {Index(r) : r \in 0 .. nrows - 1}
ColumnSelections(ncols) ==
    IF ncols = 1 THEN {SliceAll}
    ELSE {SliceAll, Slice(1, ncols - 1), Index(0), Index(-1)}
CallBounds == {Unset, SetBounds(-1, 1), SetBounds(1, 0)}
CallVars == {final_time, states}

\* The problems whose bounds are written call by call: the largest of the
\* model, and the smallest, whose two grid points leave no interior column.
CallProblems ==
    {p \in Problems :
        /\ p.info = Info(Unset, Unset, SetBounds(0, 1))
        /\ \/ p.numStates = MaxStates /\ p.numControls = MaxControls
           \/ p.numStates = 1 /\ p.numControls = 0}

\* An instance whose blocks are declared and whose bound matrices are
\* allocated with the blocks' shapes, before any bound is written.
InitBounds ==
    /\ pc = "bounds"
    /\ m_solver = [optimSolver |-> "ipopt", pluginOptions |-> EmptyDict,
                   solverOptions |-> EmptyDict]
    /\ m_problem \in CallProblems
    /\ m_numGridPoints = (IF m_problem.numStates = 1 THEN 2 ELSE MaxGridPoints)
    /\ m_vars = [v \in Var |-> Sym(v, Shapes(m_problem, m_numGridPoints)[v])]
    /\ m_lowerBounds = [v \in Var |-> DM(m_vars[v].rows, m_vars[v].columns)]
    /\ m_upperBounds = [v \in Var |-> DM(m_vars[v].rows, m_vars[v].columns)]
    /\ m_grid \in Grids(m_numGridPoints)
    /\ \A i \in 1 .. m_numGridPoints - 1 : m_grid[i] = i - 1
    /\ xdot = <<>>
    /\ m_objective = None
    /\ m_constraints = <<>>
    /\ m_constraintsLowerBounds = <<>>
    /\ m_constraintsUpperBounds = <<>>
    /\ guessOrig = None
    /\ guess = None
    /\ nlpFunc = None
    /\ nlpArgs = None
    /\ nlpResult = None
    /\ solution = None
    /\ solverCalls = 0
    /\ callLog = <<>>
    /\ InitAux

\* One call setVariableBounds(var, rowIndices, columnIndices, bounds).
SetVariableBoundsCall ==
    /\ pc = "bounds"
    /\ Len(callLog) < MaxBoundCalls
    /\ \E var \in CallVars, bounds \in CallBounds :
       \E rowIndices \in RowSelections(m_vars[var].rows),
          columnIndices \in ColumnSelections(m_vars[var].columns) :
          LET new == setVariableBounds(m_lowerBounds[var], m_upperBounds[var],
                                       rowIndices, columnIndices, bounds)
          IN /\ m_lowerBounds' = [m_lowerBounds EXCEPT ![var] = new[1]]
             /\ m_upperBounds' = [m_upperBounds EXCEPT ![var] = new[2]]
             /\ callLog' = Append(callLog,
                              [var |-> var, rowIndices |-> rowIndices,
                               columnIndices |-> columnIndices,
                               bounds |-> bounds])
    /\ UNCHANGED <<pc, m_solver, m_problem, m_numGridPoints, m_vars, m_grid,
                   xdot, constraintVars, solveVars>>

NextBounds == SetVariableBoundsCall /\ UNCHANGED auxVars

SpecBounds == InitBounds /\ [][NextBounds]_vars

\* ------------------------------------------------------------ claims
\* The blocks of a map concatenated in ascending key order, written
\* without the codec: the least key of S first.
RECURSIVE AscendingConcat(_, _)
AscendingConcat(map, S) ==
    IF S = {} THEN <<>>
    ELSE LET least == CHOOSE k \in S : \A j \in S : k <= j
         IN [i \in 1 .. numel(map[least]) |->
                map[least].data[<<(i - 1) % map[least].rows,
                                  (i - 1) \div map[least].rows>>]]
            \o AscendingConcat(map, S \ {least})

RoundTrips(v, o) == flatten(expand(v, m_vars, o), o) = v

\* C1: flatten(expand(v)) = v, entry for entry, for every flat vector v of
\* the store's total length: the flattened store itself and the flattened
\* lower and upper bounds, under every iteration order of the containers;
\* and the vector the solver returned, against the flattened variables of
\* the Solution solve built from it.
C1_RoundTrip ==
    /\ pc = "ready" =>
          \A o \in VarOrders :
              /\ RoundTrips(flatten(m_vars, o), o)
              /\ RoundTrips(flatten(m_lowerBounds, o), o)
              /\ RoundTrips(flatten(m_upperBounds, o), o)
    /\ pc = "returned" =>
          \A o \in VarOrders :
              flatten(solution.variables, o) = nlpResult.x

\* C1's case: solve expanded a solver vector of distinct entries into a
\* store whose state block has several rows and columns.
C1_Witness ==
    /\ pc = "returned"
    /\ m_vars[states].rows >= 2
    /\ m_vars[controls].rows >= 1
    /\ nlpResult.x[1] # nlpResult.x[2]
    /\ solution.variables[states].data[<<1, 0>>] = nlpResult.x[4]

\* C2: flatten does not depend on the order the container yields the
\* keys: for every iteration order the result is the blocks in ascending
\* key order, so two maps with the same blocks flatten alike; and the
\* vectors solve built (x, x0, lbx, ubx) are in that order.
C2_FlattenOrder ==
    /\ pc = "ready" =>
          \A o \in VarOrders :
              /\ flatten(m_vars, o) = AscendingConcat(m_vars, Var)
              /\ flatten(m_lowerBounds, o) = AscendingConcat(m_lowerBounds, Var)
              /\ flatten(m_upperBounds, o) = AscendingConcat(m_upperBounds, Var)
    /\ pc = "invoke" =>
          /\ nlpFunc.x = AscendingConcat(m_vars, Var)
          /\ \A o \in VarOrders :
                flatten(guess.variables, o)
                    = AscendingConcat(guess.variables, Var)
    /\ pc = "expand" =>
          /\ nlpArgs.x0 = AscendingConcat(guess.variables, Var)
          /\ nlpArgs.lbx = AscendingConcat(m_lowerBounds, Var)
          /\ nlpArgs.ubx = AscendingConcat(m_upperBounds, Var)

\* C2's case: solve flattened maps with a nonempty block of every kind,
\* the time blocks differing from each other.
C2_Witness ==
    /\ nlpArgs # None
    /\ m_vars[states].rows >= 1
    /\ m_vars[controls].rows >= 1
    /\ nlpArgs.x0[1] # nlpArgs.x0[2]
    /\ nlpArgs.lbx[1] # nlpArgs.lbx[3]

\* The values a Bounds value stands for in the matrices.
LowerOf(bounds) == IF isSet(bounds) THEN bounds.lower ELSE -Infinity
UpperOf(bounds) == IF isSet(bounds) THEN bounds.upper ELSE Infinity

\* Entry (r, c) of block v holds the pair of bounds.
EntryIs(v, r, c, bounds) ==
    /\ m_lowerBounds[v].data[<<r, c>>] = LowerOf(bounds)
    /\ m_upperBounds[v].data[<<r, c>>] = UpperOf(bounds)

\* C3: after the bound specification of the problem is applied to the
\* blocks with one column per grid point, every column 1 .. N-2 of every
\* row holds the interior default, column 0 holds the initial override
\* when one is present and column N-1 the final override when one is
\* present.
C3_BoundSpecification ==
    pc = "ready" =>
        \A v \in {states, controls} :
        \A r \in 0 .. m_vars[v].rows - 1 :
            /\ \A c \in 1 .. m_numGridPoints - 2 :
                  EntryIs(v, r, c, m_problem.info.bounds)
            /\ isSet(m_problem.info.initialBounds) =>
                  EntryIs(v, r, 0, m_problem.info.initialBounds)
            /\ isSet(m_problem.info.finalBounds) =>
                  EntryIs(v, r, m_numGridPoints - 1,
                          m_problem.info.finalBounds)

\* C3's case: a specification with a default and both overrides, all
\* different, applied to a block with interior columns and several rows.
C3_Witness ==
    /\ pc = "ready"
    /\ m_numGridPoints >= 3
    /\ m_vars[states].rows >= 2
    /\ isSet(m_problem.info.bounds)
    /\ isSet(m_problem.info.initialBounds)
    /\ isSet(m_problem.info.finalBounds)
    /\ m_lowerBounds[states].data[<<1, 0>>]
          # m_lowerBounds[states].data[<<1, 1>>]
    /\ m_lowerBounds[states].data[<<1, 1>>]
          # m_lowerBounds[states].data[<<1, m_numGridPoints - 1>>]
    /\ m_upperBounds[states].data[<<1, 0>>]
          # m_upperBounds[states].data[<<1, 1>>]

\* The entries of block var a call selects.
Selected(call) ==
    Indices(call.rowIndices, m_vars[call.var].rows)
        \X Indices(call.columnIndices, m_vars[call.var].columns)

LastCall == callLog[Len(callLog)]

\* C4: after setVariableBounds every selected entry of the block holds
\* -infinity and +infinity when the Bounds value is not set, and
\* bounds.lower and bounds.upper when it is, whatever it held before.
C4_WrittenValues ==
    callLog # <<>> =>
        \A p \in Selected(LastCall) :
            EntryIs(LastCall.var, p[1], p[2], LastCall.bounds)

\* C4's case: a call with unset bounds over entries an earlier call had
\* given finite bounds.
C4_Witness ==
    /\ Len(callLog) >= 2
    /\ ~isSet(LastCall.bounds)
    /\ isSet(callLog[1].bounds)
    /\ callLog[1].var = LastCall.var
    /\ Selected(callLog[1]) \cap Selected(LastCall) # {}

\* The bound maps after the calls of log are made again, in order.
RECURSIVE Replay(_, _, _)
Replay(log, lower, upper) ==
    IF log = <<>> THEN <<lower, upper>>
    ELSE LET call == Head(log)
             new == setVariableBounds(lower[call.var], upper[call.var],
                                      call.rowIndices, call.columnIndices,
                                      call.bounds)
         IN Replay(Tail(log), [lower EXCEPT ![call.var] = new[1]],
                   [upper EXCEPT ![call.var] = new[2]])

\* C5: making the same sequence of setVariableBounds calls a second time
\* leaves the lower and upper bound matrices as the first application
\* left them, for the whole sequence of calls made and for each of its
\* tails (a sequence applied to matrices earlier calls have written).
C5_Idempotent ==
    \A k \in 1 .. Len(callLog) :
        Replay(SubSeq(callLog, k, Len(callLog)), m_lowerBounds, m_upperBounds)
            = <<m_lowerBounds, m_upperBounds>>

\* C5's case: a sequence of two calls that overlap and write different
\* values.
C5_Witness ==
    /\ Len(callLog) >= 2
    /\ callLog[1].var = callLog[2].var
    /\ callLog[1].bounds # callLog[2].bounds
    /\ Selected(callLog[1]) \cap Selected(callLog[2]) # {}
    /\ Selected(callLog[1]) \ Selected(callLog[2]) # {}

\* Where block v starts in a flat vector: the entries of the blocks
\* with smaller keys.
RECURSIVE EntriesBelow(_, _)
EntriesBelow(v, S) ==
    IF S = {} THEN 0
    ELSE LET k == CHOOSE j \in S : TRUE
         IN (IF k < v THEN m_vars[k].rows * m_vars[k].columns ELSE 0)
            + EntriesBelow(v, S \ {k})

\* Entry (r, c) of block v, read from the flat vector x.
EntryOf(x, v, r, c) == x[EntriesBelow(v, Var) + c * m_vars[v].rows + r + 1]

\* The blocks of variables are the blocks of the flat vector x.
IsExpansionOf(variables, x) ==
    /\ DOMAIN variables = Var
    /\ \A v \in Var :
        /\ variables[v].rows = m_vars[v].rows
        /\ variables[v].columns = m_vars[v].columns
        /\ \A r \in 0 .. m_vars[v].rows - 1, c \in 0 .. m_vars[v].columns - 1 :
              variables[v].data[<<r, c>>] = EntryOf(x, v, r, c)

\* C6: a call of solve invokes the solver at most once, and exactly once
\* when it has returned a Solution, converged or not.
C6_OneSolverCall ==
    /\ solverCalls <= 1
    /\ pc = "expand" => solverCalls = 1
    /\ solution # None => solverCalls = 1

\* C6's case: solve has returned the Solution of a solver run that did not
\* converge.
C6_Witness ==
    /\ pc = "returned"
    /\ solution # None
    /\ ~nlpResult.stats.success
    /\ solverCalls = 1

\* C7: when the solver returns without converging, solve returns a
\* Solution whose variables are the expansion of the solver's vector and
\* whose stats are the solver's, and raises no error after the solver has
\* returned.
C7_NonConvergedReturned ==
    /\ pc = "threw" => nlpResult = None
    /\ (pc = "returned" /\ ~nlpResult.stats.success) =>
          /\ solution # None
          /\ solution.stats = nlpResult.stats
          /\ solution.stats.return_status \in SolverStatuses \ {"Solve_Succeeded"}
          /\ IsExpansionOf(solution.variables, nlpResult.x)

\* C7's case: the solver stopped at its iteration limit and solve handed
\* back its vector, whose entries differ.
C7_Witness ==
    /\ pc = "returned"
    /\ solution # None
    /\ solution.stats.return_status = "Maximum_Iterations_Exceeded"
    /\ m_vars[states].rows >= 2
    /\ solution.variables[states].data[<<0, 1>>]
          # solution.variables[states].data[<<1, 0>>]

\* The positions of a running solve call and of its two ends.
SolvePositions == {"nlp", "invoke", "expand", "returned", "threw"}

\* C8: when creating or calling the solver fails, solve ends with the
\* error and no Solution, and no step of the call has changed the
\* instance: its store, bounds, grid, objective and constraint lists.
C8_FailedSolve ==
    [][/\ pc' = "threw" => solution' = None
       /\ pc' \in SolvePositions => instanceVars' = instanceVars]_vars

\* C8's case: the call of the solver raised, after the guess was
\* resampled and the solver created.
C8_Witness ==
    /\ pc = "threw"
    /\ solverCalls = 1
    /\ guess # None
    /\ nlpFunc # None
    /\ solution = None

\* C9: the options handed to nlpsol hold every option of the solver
\* itself, under the solver's name, and every plugin option, whatever the
\* plugin options are.
C9_SolverOptionsPassed ==
    nlpFunc # None =>
        /\ \A k \in DOMAIN m_solver.pluginOptions :
            /\ k \in DOMAIN nlpFunc.options
            /\ nlpFunc.options[k] = m_solver.pluginOptions[k]
        /\ \A k \in DOMAIN m_solver.solverOptions :
            /\ m_solver.optimSolver \in DOMAIN nlpFunc.options
            /\ k \in DOMAIN nlpFunc.options[m_solver.optimSolver]
            /\ nlpFunc.options[m_solver.optimSolver][k]
                  = m_solver.solverOptions[k]

\* C10: the times of a returned Solution are grid[i] * (tf - t0) + t0 with
\* t0 and tf the initial_time and final_time entries of the solver's
\* vector; the first time is t0 and the last is tf (times are in units of
\* 1 / GridDenom).
C10_SolutionTimes ==
    pc = "returned" =>
        LET t0 == EntryOf(nlpResult.x, initial_time, 0, 0)
            tf == EntryOf(nlpResult.x, final_time, 0, 0)
        IN /\ Len(solution.times) = m_numGridPoints
           /\ \A i \in 1 .. m_numGridPoints :
                 solution.times[i] = m_grid[i] * (tf - t0) + t0 * GridDenom
           /\ solution.times[1] = t0 * GridDenom
           /\ solution.times[m_numGridPoints] = tf * GridDenom

\* C10's case: a Solution whose solved times differ from each other, from
\* the guess's times and from the time bounds, on a grid with an interior
\* point.
C10_Witness ==
    /\ pc = "returned"
    /\ m_numGridPoints >= 3
    /\ nlpResult.x[1] # nlpResult.x[2]
    /\ solution.times # guess.times
    /\ nlpResult.x[1] # scalarOf(guessOrig.variables[initial_time])
    /\ nlpResult.x[2] > scalarOf(m_upperBounds[final_time])

\* The values a call of solve holds are those an instance with the given
\* members, newly constructed, would hold for the guess g and the
\* solver's result: nothing of an earlier call or of another instance is
\* in them.
AsOnFreshInstance(g, members) ==
    /\ guess # None =>
          guess = resample(g, createTimes(scalarOf(g.variables[initial_time]),
                                          scalarOf(g.variables[final_time]),
                                          members.grid))
    /\ nlpFunc # None =>
          /\ nlpFunc.x = AscendingConcat(members.vars, Var)
          /\ nlpFunc.f = members.objective
          /\ nlpFunc.g = veccatVectors(members.constraints)
    /\ nlpArgs # None =>
          /\ nlpArgs.x0 = AscendingConcat(guess.variables, Var)
          /\ nlpArgs.lbx = AscendingConcat(members.lowerBounds, Var)
          /\ nlpArgs.ubx = AscendingConcat(members.upperBounds, Var)
          /\ nlpArgs.lbg = veccatVectors(members.constraintsLowerBounds)
          /\ nlpArgs.ubg = veccatVectors(members.constraintsUpperBounds)
    /\ solution # None =>
          /\ IsExpansionOf(solution.variables, nlpResult.x)
          /\ solution.times
                = [i \in 1 .. members.numGridPoints |->
                      members.grid[i] * (nlpResult.x[2] - nlpResult.x[1])
                          + nlpResult.x[1] * GridDenom]
          /\ solution.stats = nlpResult.stats

\* C11: solve leaves the instance as construction left it: once
\* transcribe() has ended, the store, the bound matrices, the grid, the
\* objective and the constraint lists keep their values over every
\* sequence of solve calls; a call starts with none of the values of the
\* call before, and what it hands to the solver and what it returns are
\* what a newly constructed instance gives for the same guess.
C11_SolveLeavesInstance ==
    pc \in {"ready"} \cup SolvePositions =>
        /\ Members = built
        /\ pc = "nlp" =>
              /\ nlpFunc = None
              /\ nlpArgs = None
              /\ nlpResult = None
              /\ solution = None
        /\ solveLog # <<>> =>
              /\ guessOrig = solveLog[Len(solveLog)]
              /\ AsOnFreshInstance(guessOrig, built)

\* C11's case: a second call, with another guess than the first call's,
\* has returned its Solution.
C11_Witness ==
    /\ pc = "returned"
    /\ Len(solveLog) >= 2
    /\ solveLog[1] # solveLog[2]
    /\ DOMAIN solveLog[1].variables = Var
    /\ DOMAIN solveLog[2].variables = Var
    /\ solution # None
    /\ m_numGridPoints >= 3

\* Where the k-th vector of a list starts in the list's concatenation.
RECURSIVE BlockStart(_, _)
BlockStart(list, k) ==
    IF k = 1 THEN 0 ELSE BlockStart(list, k - 1) + Len(list[k - 1])

\* flat is the vectors of list, one after the other in list order.
InListOrder(flat, list) ==
    /\ Len(flat) = BlockStart(list, Len(list) + 1)
    /\ \A k \in 1 .. Len(list) :
       \A j \in 1 .. Len(list[k]) :
            flat[BlockStart(list, k) + j] = list[k][j]

\* The addConstraints calls construction has made at each position, as
\* <<tag of the equations, lower bound, upper bound>>.
ConstraintCalls ==
    LET all == <<<<"defect", 0, 0>>, <<"path", -1, 1>>,
                 <<"boundary", 0, Infinity>>>>
    IN CASE pc \in {"constructed", "grid", "dae"} -> <<>>
         [] pc = "path" -> SubSeq(all, 1, 1)
         [] pc = "boundary" -> SubSeq(all, 1, 2)
         [] OTHER -> all

\* list' is list or list with entries appended.
Extends(longer, shorter) ==
    /\ Len(longer) >= Len(shorter)
    /\ SubSeq(longer, 1, Len(shorter)) = shorter

\* C12: the three constraint lists have one entry per addConstraints
\* call, in call order, the k-th entries being the equations and the
\* lower and upper bounds of the k-th call, of one size; no step removes
\* or reorders an entry; and solve hands g, lbg and ubg to the solver as
\* the entries in list order.
C12_ConstraintBlocks ==
    /\ [](/\ Len(m_constraints) = Len(ConstraintCalls)
          /\ Len(m_constraintsLowerBounds) = Len(ConstraintCalls)
          /\ Len(m_constraintsUpperBounds) = Len(ConstraintCalls)
          /\ \A k \in 1 .. Len(ConstraintCalls) :
                /\ Len(m_constraints[k]) = Len(m_constraintsLowerBounds[k])
                /\ Len(m_constraints[k]) = Len(m_constraintsUpperBounds[k])
                /\ \A j \in 1 .. Len(m_constraints[k]) :
                      /\ m_constraints[k][j][1] = ConstraintCalls[k][1]
                      /\ m_constraintsLowerBounds[k][j] = ConstraintCalls[k][2]
                      /\ m_constraintsUpperBounds[k][j] = ConstraintCalls[k][3]
          /\ nlpFunc # None => InListOrder(nlpFunc.g, m_constraints)
          /\ nlpArgs # None =>
                /\ InListOrder(nlpArgs.lbg, m_constraintsLowerBounds)
                /\ InListOrder(nlpArgs.ubg, m_constraintsUpperBounds))
    /\ [][/\ Extends(m_constraints', m_constraints)
          /\ Extends(m_constraintsLowerBounds', m_constraintsLowerBounds)
          /\ Extends(m_constraintsUpperBounds', m_constraintsUpperBounds)]_vars

\* C12's case: solve concatenated three blocks of different sizes and
\* different bounds.
C12_Witness ==
    /\ pc = "expand"
    /\ Len(m_constraints) = 3
    /\ Len(m_constraints[1]) > Len(m_constraints[2])
    /\ Len(m_constraints[2]) > Len(m_constraints[3])
    /\ nlpArgs.lbg[1] # nlpArgs.lbg[Len(m_constraints[1]) + 1]
    /\ nlpArgs.ubg[Len(nlpArgs.ubg)] = Infinity
    /\ nlpFunc.g[1] = <<"defect", 1>>

\* The tags of the constraint blocks emitted so far, and the place of a
\* tag in the assembly order.
EmittedTags(list) == [k \in 1 .. Len(list) |-> list[k][1][1]]
TagOrder == <<"defect", "path", "boundary">>

\* What has been assembled so far is a beginning of the assembly, in its
\* order: nothing of a later step without all of the earlier ones.
AssembledInOrder ==
    /\ m_vars # <<>> =>
          /\ Len(m_grid) = m_numGridPoints
          /\ DOMAIN m_vars = Var
          /\ DOMAIN m_lowerBounds = Var
          /\ DOMAIN m_upperBounds = Var
    /\ xdot # <<>> => m_vars # <<>>
    /\ Len(xdot) <= m_numGridPoints
    /\ \A i \in 1 .. Len(xdot) : xdot[i] = i - 1
    /\ m_constraints # <<>> => Len(xdot) = m_numGridPoints
    /\ Len(m_constraints) <= Len(TagOrder)
    /\ EmittedTags(m_constraints) = SubSeq(TagOrder, 1, Len(m_constraints))
    /\ m_objective # None => Len(m_constraints) = Len(TagOrder)
    /\ pc \in {"ready"} \cup SolvePositions => m_objective # None

RECURSIVE SumOf(_)
SumOf(v) == IF v = <<>> THEN 0 ELSE Head(v) + SumOf(Tail(v))

\* C14: for both schemes and every mesh of at least one interval the
\* quadrature coefficients are as many as the grid points (mesh points,
\* and midpoints for Hermite-Simpson), none is negative, and they sum to
\* 1 (12 * MeshDenom in the coefficients' unit).
C14_QuadratureSum ==
    (quadrature # None /\ quadrature.coefficients # <<>>) =>
        /\ Len(quadrature.coefficients) = Len(quadrature.grid)
        /\ Len(quadrature.grid)
              = (IF quadrature.scheme = "trapezoidal" THEN 1 ELSE 2)
                    * (Len(quadrature.mesh) - 1) + 1
        /\ \A i \in 1 .. Len(quadrature.coefficients) :
              quadrature.coefficients[i] > 0
        /\ SumOf(quadrature.coefficients) = 12 * MeshDenom

\* C14's case: the coefficients of each scheme over a mesh of several
\* intervals of different lengths.
C14_Witness ==
    /\ quadrature # None
    /\ quadrature.coefficients # <<>>
    /\ quadrature.scheme = "hermite-simpson"
    /\ Len(quadrature.mesh) >= 4
    /\ quadrature.mesh[2] - quadrature.mesh[1]
          # quadrature.mesh[3] - quadrature.mesh[2]
    /\ quadrature.coefficients[1] # quadrature.coefficients[3]

\* The divisors the interpolation of resample uses to bring samples at
\* times ts onto newTimes: the length of the interval of ts a new time
\* falls strictly inside of.
ResampleDivisors(ts, newTimes) ==
    {ts[j + 1] - ts[j] :
        j \in {i \in 1 .. Len(ts) - 1 :
                  \E k \in 1 .. Len(newTimes) :
                      /\ \A e \in 1 .. Len(ts) : ts[e] # newTimes[k]
                      /\ ts[i] < newTimes[k]
                      /\ newTimes[k] < ts[i + 1]}}

AllEqual(times, t) == \A i \in 1 .. Len(times) : times[i] = t

C16_IndependentInstances ==
    /\ []((pc \in SolvePositions /\ guessOrig # None) =>
              AsOnFreshInstance(guessOrig, Members))
    /\ [][\/ peer' = peer
          \/ peer' = Current /\ Current' = peer]_vars

\* C16's case: both instances are inside solve at once, with different
\* guesses, one about to call its solver and the other holding its
\* solver's result.
C16_Witness ==
    /\ peer # None
    /\ pc = "expand"
    /\ peer.pc = "invoke"
    /\ guessOrig # peer.guessOrig
    /\ m_vars # peer.m_vars
    /\ m_grid # peer.m_grid

\* The initial bounds of the problem's info are given with lower > upper.
InitialBoundsInconsistent ==
    /\ isSet(m_problem.info.initialBounds)
    /\ m_problem.info.initialBounds.lower > m_problem.info.initialBounds.upper

\* C17: bounds with lower > upper are not checked.  setVariableBounds
\* stores the two values as given, construction goes on to its end, and
\* solve hands every entry of the bound matrices to the solver as it is
\* stored; a solve call ends in an error only where the guess lacks a
\* time entry, where the solver cannot be created or where the solver's
\* call fails, so the inconsistency can show only in what the solver
\* reports.
C17_InconsistentBounds ==
    /\ (m_vars # <<>> /\ InitialBoundsInconsistent) =>
          \A v \in {states, controls} :
          \A r \in 0 .. m_vars[v].rows - 1 :
              /\ m_lowerBounds[v].data[<<r, 0>>]
                    = m_problem.info.initialBounds.lower
              /\ m_upperBounds[v].data[<<r, 0>>]
                    = m_problem.info.initialBounds.upper
              /\ m_lowerBounds[v].data[<<r, 0>>]
                    > m_upperBounds[v].data[<<r, 0>>]
    /\ nlpArgs # None =>
          \A v \in Var :
          \A r \in 0 .. m_vars[v].rows - 1, c \in 0 .. m_vars[v].columns - 1 :
              /\ EntryOf(nlpArgs.lbx, v, r, c) = m_lowerBounds[v].data[<<r, c>>]
              /\ EntryOf(nlpArgs.ubx, v, r, c) = m_upperBounds[v].data[<<r, c>>]
    /\ pc = "threw" =>
          \/ ~({initial_time, final_time} \subseteq DOMAIN guessOrig.variables)
          \/ nlpFunc = None
          \/ solverCalls = 1

\* C17's case: a problem whose initial bounds have lower > upper was
\* constructed and solved; the solver was handed an entry with
\* lbx > ubx and reported the problem infeasible.
C17_Witness ==
    /\ pc = "returned"
    /\ InitialBoundsInconsistent
    /\ m_vars[states].rows >= 2
    /\ EntryOf(nlpArgs.lbx, states, 1, 0) > EntryOf(nlpArgs.ubx, states, 1, 0)
    /\ EntryOf(nlpArgs.lbx, states, 1, 1) < EntryOf(nlpArgs.ubx, states, 1, 1)
    /\ solution.stats.return_status = "Infeasible_Problem_Detected"

\* The value of the state channel of an Iterate at its i-th time.
ValueAt(it, i) == it.variables[states].data[<<0, i - 1>>]

\* C18: an Iterate over a time range of positive length, resampled from
\* grid A onto grid B and back onto grid A, has its original value at
\* every time the two grids share, already after the first resampling
\* and again after the second; the times, the shapes and the scalar
\* blocks come back as they were; and resampling onto the Iterate's own
\* times gives the Iterate itself.
C18_ResampleRoundTrip ==
    (resampled # None /\ resampled.there # None) =>
        LET orig == resampled.orig
            there == resampled.there
            back == resampled.back
        IN /\ there.times = resampled.onto
           /\ \A i \in 1 .. Len(orig.times), j \in 1 .. Len(there.times) :
                 orig.times[i] = there.times[j] =>
                     ValueAt(there, j) = ValueAt(orig, i)
           /\ resampled.onto = orig.times => there = orig
           /\ back # None =>
                 /\ back.times = orig.times
                 /\ DOMAIN back.variables = DOMAIN orig.variables
                 /\ back.variables[initial_time] = orig.variables[initial_time]
                 /\ back.variables[final_time] = orig.variables[final_time]
                 /\ back.variables[states].columns
                       = orig.variables[states].columns
                 /\ \A i \in 1 .. Len(orig.times) :
                       (\E j \in 1 .. Len(there.times) :
                            there.times[j] = orig.times[i]) =>
                           ValueAt(back, i) = ValueAt(orig, i)

\* C18's case: grids that share their end points only; the round trip
\* gives back the values there and another value at the interior point.
C18_Witness ==
    /\ resampled # None
    /\ resampled.back # None
    /\ Len(resampled.orig.times) >= 3
    /\ Len(resampled.there.times) >= 3
    /\ resampled.orig.times[2] # resampled.there.times[2]
    /\ ValueAt(resampled.orig, 1) # ValueAt(resampled.orig, 3)
    /\ ValueAt(resampled.back, 2) # ValueAt(resampled.orig, 2)

\* The entries of the store: the length of its flat vector.
StoreLength == EntriesBelow(controls, Var) + numel(m_vars[controls])

\* The places of the flat vector that block v is cut from.
PlacesOf(v) ==
    EntriesBelow(v, Var) + 1 .. EntriesBelow(v, Var) + numel(m_vars[v])

\* C19: for every flat vector x of the store's length and every order
\* the store's container yields its keys in, expand(x) has the key set of
\* the store and blocks of the store's shapes, block v holding, column by
\* column, the entries of x from the end of the blocks with smaller keys
\* on; the places the blocks are cut from do not overlap and together
\* are all of x.  The Solution solve returns is such an expansion of the
\* solver's vector.
C19_ExpandLayout ==
    /\ pc = "ready" =>
          /\ \A v, w \in Var : v # w => PlacesOf(v) \cap PlacesOf(w) = {}
          /\ UNION {PlacesOf(v) : v \in Var} = 1 .. StoreLength
          /\ \A v, w \in Var :
                v < w => \A i \in PlacesOf(v), j \in PlacesOf(w) : i < j
          /\ \A x \in SolverOutputs(StoreLength), o \in VarOrders :
                IsExpansionOf(expand(x, m_vars, o), x)
    /\ pc = "returned" =>
          /\ Len(nlpResult.x) = StoreLength
          /\ IsExpansionOf(solution.variables, nlpResult.x)

\* C19's case: a vector of distinct entries expanded into a store with
\* a block of several rows and columns and a block after it.
C19_Witness ==
    /\ pc = "returned"
    /\ m_vars[states].rows >= 2
    /\ m_numGridPoints >= 3
    /\ m_vars[controls].rows >= 1
    /\ nlpResult.x[3] # nlpResult.x[4]
    /\ solution.variables[controls].data[<<0, 0>>]
          = nlpResult.x[2 + numel(m_vars[states]) + 1]
    /\ solution.variables[states].data[<<0, 1>>] = nlpResult.x[5]

\* Index i of a dimension of length len is picked by a selection: a
\* negative index or slice end is counted from the end.
FromStart(k, len) == IF k < 0 THEN k + len ELSE k
Picks(sel, i, len) ==
    \/ sel.kind = "all"
    \/ sel.kind = "index" /\ i = FromStart(sel.start, len)
    \/ /\ sel.kind = "slice"
       /\ FromStart(sel.start, len) <= i
       /\ i < FromStart(sel.stop, len)

\* Entry p of block v is one the call writes.
Writes(call, v, p) ==
    /\ v = call.var
    /\ Picks(call.rowIndices, p[1], m_vars[v].rows)
    /\ Picks(call.columnIndices, p[2], m_vars[v].columns)

\* C20: a call setVariableBounds(var, rows, columns, bounds) leaves every
\* entry of the lower and upper bound matrices that is not at a selected
\* row and column of block var as it was, in block var and in every
\* other block; the matrices keep their shapes; the variable store, the
\* grid, the constraint lists and the objective are unchanged.
C20_BoundsFrame ==
    [][callLog' # callLog =>
          LET call == callLog'[Len(callLog')]
          IN /\ DOMAIN m_lowerBounds' = DOMAIN m_lowerBounds
             /\ DOMAIN m_upperBounds' = DOMAIN m_upperBounds
             /\ \A v \in Var :
                   /\ DOMAIN m_lowerBounds'[v].data = DOMAIN m_lowerBounds[v].data
                   /\ DOMAIN m_upperBounds'[v].data = DOMAIN m_upperBounds[v].data
                   /\ \A p \in DOMAIN m_lowerBounds[v].data :
                         ~Writes(call, v, p) =>
                             /\ m_lowerBounds'[v].data[p]
                                   = m_lowerBounds[v].data[p]
                             /\ m_upperBounds'[v].data[p]
                                   = m_upperBounds[v].data[p]
             /\ UNCHANGED <<m_vars, m_grid, m_numGridPoints, xdot,
                            constraintVars>>]_vars

\* C20's case: a second call on the same block wrote entries the first
\* had not written and left those the first had written with the first
\* call's bounds, which differ from the second's.
C20_Witness ==
    /\ Len(callLog) = 2
    /\ callLog[1].var = callLog[2].var
    /\ callLog[1].var = states
    /\ Selected(callLog[1]) \cap Selected(callLog[2]) = {}
    /\ LowerOf(callLog[1].bounds) # LowerOf(callLog[2].bounds)
    /\ \A p \in Selected(callLog[1]) :
          EntryIs(states, p[1], p[2], callLog[1].bounds)
    /\ \E p \in DOMAIN m_lowerBounds[states].data :
          p \notin Selected(callLog[1]) \cup Selected(callLog[2])

\* What each index of the flat vector of a map refers to: the key, row
\* and column of the entry flatten() puts there.
Labels(map) ==
    [v \in DOMAIN map |->
        Sym(v, [rows |-> map[v].rows, columns |-> map[v].columns])]
Layout(map) ==
    flatten(Labels(map), CHOOSE o \in IterationOrders(DOMAIN map) : TRUE)

SameShape(a, b) == a.rows = b.rows /\ a.columns = b.columns

\* C21: at every solve call the four flat vectors handed to the solver
\* are aligned: the variable store, the lower-bound map, the upper-bound
\* map and the resampled guess hold the same keys with the same shape per
\* key, so x, lbx, ubx and x0 are equally long and index i of each
\* refers to the same entry of the same block.
C21_AlignedVectors ==
    nlpArgs # None =>
        /\ DOMAIN m_lowerBounds = DOMAIN m_vars
        /\ DOMAIN m_upperBounds = DOMAIN m_vars
        /\ DOMAIN guess.variables = DOMAIN m_vars
        /\ \A v \in DOMAIN m_vars :
              /\ SameShape(m_lowerBounds[v], m_vars[v])
              /\ SameShape(m_upperBounds[v], m_vars[v])
              /\ SameShape(guess.variables[v], m_vars[v])
        /\ Len(nlpArgs.lbx) = Len(nlpFunc.x)
        /\ Len(nlpArgs.ubx) = Len(nlpFunc.x)
        /\ Len(nlpArgs.x0) = Len(nlpFunc.x)
        /\ Layout(m_lowerBounds) = nlpFunc.x
        /\ Layout(m_upperBounds) = nlpFunc.x
        /\ Layout(guess.variables) = nlpFunc.x

\* The guess of the call holds both time entries.
HasTimes(it) == {initial_time, final_time} \subseteq DOMAIN it.variables

\* guess is guessOrig on the instance's grid, stretched over guessOrig's
\* own time range: the times, the shapes, and the value at every time
\* that is the time of one sample of guessOrig.
OnOwnTimes ==
    LET t0 == scalarOf(guessOrig.variables[initial_time])
        tf == scalarOf(guessOrig.variables[final_time])
    IN /\ Len(guess.times) = m_numGridPoints
       /\ \A i \in 1 .. m_numGridPoints :
             guess.times[i] = (tf - t0) * m_grid[i] + t0 * GridDenom
       /\ DOMAIN guess.variables = DOMAIN guessOrig.variables
       /\ \A v \in DOMAIN guess.variables :
             IF v \in {states, controls}
             THEN /\ guess.variables[v].rows = guessOrig.variables[v].rows
                  /\ guess.variables[v].columns = m_numGridPoints
                  /\ \A r \in 0 .. guess.variables[v].rows - 1 :
                        \A i \in 1 .. m_numGridPoints :
                            \A j \in 1 .. Len(guessOrig.times) :
                                (/\ guessOrig.times[j] = guess.times[i]
                                 /\ \A k \in 1 .. Len(guessOrig.times) :
                                       guessOrig.times[k] = guessOrig.times[j]
                                           => k = j) =>
                                    guess.variables[v].data[<<r, i - 1>>]
                                      = guessOrig.variables[v].data[<<r, j - 1>>]
             ELSE guess.variables[v] = guessOrig.variables[v]

\* C22: solve resamples the guess before anything else, onto times made
\* from the guess's own initial_time and final_time entries; a guess that
\* lacks either entry makes solve fail before the solver is created or
\* invoked and without a Solution; and solve never modifies the guess it
\* was called with.
C22_ResampleFirst ==
    /\ [](pc \in SolvePositions =>
            /\ guessOrig \in Guesses(m_problem, m_grid)
            /\ (HasTimes(guessOrig) /\ guess # None) => OnOwnTimes
            /\ nlpFunc # None => guess # None
            /\ ~HasTimes(guessOrig) =>
                  /\ pc = "threw"
                  /\ guess = None
                  /\ nlpFunc = None
                  /\ nlpArgs = None
                  /\ solverCalls = 0
                  /\ solution = None)
    /\ [][/\ pc \in {"nlp", "invoke", "expand"} => guessOrig' = guessOrig
          /\ (pc \in {"ready", "returned", "threw"} /\ pc' \in SolvePositions) =>
                /\ nlpFunc' = None
                /\ solverCalls' = 0
                /\ HasTimes(guessOrig') => (pc' = "nlp" /\ guess' # None)]_vars

\* C22's case: solve was called with a guess that holds every block but
\* final_time, after the instance was constructed, and has failed.
C22_Witness ==
    /\ pc = "threw"
    /\ guessOrig # None
    /\ initial_time \in DOMAIN guessOrig.variables
    /\ final_time \notin DOMAIN guessOrig.variables
    /\ states \in DOMAIN guessOrig.variables
    /\ nlpFunc = None
    /\ solverCalls = 0

====
